---- MODULE Spec2Model ----
(***************************************************************************)
(* Disc-image content identification (tasks/task_database_cue.c):          *)
(* get_token / find_token, detect_ps1_game_sub, detect_psp_game,           *)
(* detect_serial_ascii_game, detect_system and find_first_data_track,      *)
(* modelled over byte streams.  Bytes are integers 0..255.                 *)
(***************************************************************************)
EXTENDS Integers, Sequences, FiniteSets, TLC

VARIABLES
    data,         \* the stream's content (length, bytes, injected read fault)
    io,           \* the stream handle's state: position, errno, faults left
    pc,           \* position of the running function
    rv,           \* the function's return value
    tmp_token,    \* find_first_data_track / tokenizer working buffer
    tokens,       \* history of get_token results (tokenizer driver)
    track_path,   \* out-parameter of find_first_data_track
    offset,       \* out-parameter of find_first_data_track
    res,          \* resource bookkeeping: allocations, frees, handle state
    ev,           \* what the running call has observed so far
    input,        \* description of how the input stream was built
    game_id,      \* out-buffer of the detect_*_game functions
    system_name,  \* out-parameter of detect_system
    reads,        \* the reads issued so far: offset, size asked, size got
    buffer,       \* the running function's local byte buffer (magic, buffer)
    loc           \* the running function's other locals

vars == <<data, io, pc, rv, tmp_token, tokens, track_path, offset, res, ev, input,
          game_id, system_name, reads, buffer, loc>>

Unused == "-"

(***************************************************************************)
(* Characters                                                              *)
(***************************************************************************)
Printable ==
    << " ", "!", "\"", "#", "$", "%", "&", "'", "(", ")", "*", "+", ",", "-",
       ".", "/", "0", "1", "2", "3", "4", "5", "6", "7", "8", "9", ":", ";",
       "<", "=", ">", "?", "@", "A", "B", "C", "D", "E", "F", "G", "H", "I",
       "J", "K", "L", "M", "N", "O", "P", "Q", "R", "S", "T", "U", "V", "W",
       "X", "Y", "Z", "[", "\\", "]", "^", "_", "(backtick)", "a", "b", "c", "d", "e",
       "f", "g", "h", "i", "j", "k", "l", "m", "n", "o", "p", "q", "r", "s",
       "t", "u", "v", "w", "x", "y", "z", "{", "|", "}", "~" >>

\* ASCII code of a printable character
Ord == [c \in {Printable[i] : i \in 1..Len(Printable)} |->
           31 + CHOOSE i \in 1..Len(Printable) : Printable[i] = c]

\* a C string literal as a byte sequence (without the terminating NUL)
Txt(s) == [i \in 1..Len(s) |-> Ord[s[i]]]

NUL == 0
TAB == 9
LF == 10
CR == 13

isdigit(c) == c \in Ord["0"]..Ord["9"]
isupper(c) == c \in Ord["A"]..Ord["Z"]
islower(c) == c \in Ord["a"]..Ord["z"]
isalnum(c) == isdigit(c) \/ isupper(c) \/ islower(c)
isspace(c) == c \in {Ord[" "], TAB, LF, CR, 11, 12}
toupper(c) == IF islower(c) THEN c - 32 ELSE c
tolower(c) == IF isupper(c) THEN c + 32 ELSE c

Min(a, b) == IF a < b THEN a ELSE b
Max(a, b) == IF a > b THEN a ELSE b

\* errno values used by the code
EINTR == 4
EAGAIN == 11
EINVAL == 22
EIO == 5

(***************************************************************************)
(* Streams (intfstream): a length, byte segments over a zero background,   *)
(* and optionally one position at which reads fail.                        *)
(***************************************************************************)
NoFault == [at |-> -1, err |-> 0, times |-> 0]

Stream(len, segs, fault) == [len |-> len, segs |-> segs, fault |-> fault]

TextStream(bytes) == Stream(Len(bytes), << [at |-> 0, bytes |-> bytes] >>, NoFault)

ByteAt(d, p) ==
    LET S == {k \in 1..Len(d.segs) :
                 /\ p >= d.segs[k].at
                 /\ p < d.segs[k].at + Len(d.segs[k].bytes)}
    IN  IF S = {} THEN 0
        ELSE LET k == CHOOSE k \in S : TRUE
             IN  d.segs[k].bytes[p - d.segs[k].at + 1]

OpenIo(d, e) == [pos |-> 0, errno |-> e, flt |-> d.fault.times]

intfstream_seek(d, h, p) == IF p < 0 THEN h ELSE [h EXCEPT !.pos = p]

intfstream_seek_end(d, h) == [h EXCEPT !.pos = d.len]

intfstream_tell(d, h) == h.pos

ZeroRun == [k \in 1..4096 |-> 0]

Zeros(n) == SubSeq(ZeroRun, 1, n)

\* the bytes z of the window at p, with the part of segment sg inside it laid over
overlay(z, p, sg, lo, hi) ==
    IF lo >= hi THEN z
    ELSE SubSeq(z, 1, lo - p) \o SubSeq(sg.bytes, lo - sg.at + 1, hi - sg.at)
         \o SubSeq(z, hi - p + 1, Len(z))

\* the got bytes of the stream from p on: zero where no segment lies
RECURSIVE window(_, _, _, _)
window(d, p, got, k) ==
    IF k = 0 THEN Zeros(got)
    ELSE overlay(window(d, p, got, k - 1), p, d.segs[k],
                 Max(p, d.segs[k].at), Min(p + got, d.segs[k].at + Len(d.segs[k].bytes)))

read_at(d, h, got) ==
    [n |-> got, io |-> [h EXCEPT !.pos = @ + got], bytes |-> window(d, h.pos, got, Len(d.segs))]

\* read n bytes at the handle's position: the count (short at the end of the
\* stream, -1 with errno set on a failing read), the new handle state, the bytes
intfstream_read(d, h, n) ==
    IF h.flt > 0 /\ d.fault.at >= h.pos /\ d.fault.at < h.pos + n
    THEN [n |-> -1, io |-> [h EXCEPT !.errno = d.fault.err, !.flt = @ - 1],
          bytes |-> << >>]
    ELSE read_at(d, h, Max(0, Min(n, d.len - h.pos)))

(***************************************************************************)
(* Memory buffers: a capacity, the bytes written so far, and the value an  *)
(* unwritten byte reads as (malloc'd or stack memory is not initialised).  *)
(* A write past the capacity is recorded in oob.                           *)
(***************************************************************************)
Buffer(cap, fill) == [cap |-> cap, fill |-> fill, w |-> << >>, oob |-> FALSE]

\* w[k] is the byte at index k - 1, or Hole where nothing was written yet
Hole == 0 - 1

Peek(b, i) ==
    IF i >= 0 /\ i < Len(b.w) /\ b.w[i + 1] # Hole THEN b.w[i + 1] ELSE b.fill

HoleRun == [k \in 1..4096 |-> Hole]

Holes(n) == SubSeq(HoleRun, 1, n)

\* the first n bytes of the contents, n bytes long
Padded(w, n) == IF Len(w) >= n THEN SubSeq(w, 1, n) ELSE w \o Holes(n - Len(w))

\* the bytes kept (those below the capacity) stored from index i >= 0 on
PokeRange(b, i, kept, over) ==
    [b EXCEPT !.w = Padded(b.w, i) \o kept \o SubSeq(b.w, i + Len(kept) + 1, Len(b.w)),
              !.oob = @ \/ over]

\* n bytes stored from index i on, as a read into the buffer stores them
PokeSeq(b, i, bytes) ==
    IF i < 0 \/ i >= b.cap THEN [b EXCEPT !.oob = @ \/ Len(bytes) > 0]
    ELSE PokeRange(b, i, SubSeq(bytes, 1, Min(Len(bytes), b.cap - i)), i + Len(bytes) > b.cap)

Poke(b, i, v) == PokeSeq(b, i, <<v>>)

\* the least element of a non-empty set of integers
Least(S) == CHOOSE i \in S : \A j \in S : i <= j

Prefix(b, n) == [k \in 1..n |-> Peek(b, k - 1)]

\* the C string held in a buffer: the bytes before the first NUL (an unwritten
\* byte reads as the fill value; the scan stops at the capacity)
CStr(b) ==
    Prefix(b, Least({i \in 0..(Len(b.w) - 1) : Peek(b, i) = NUL}
                      \cup (IF b.fill = NUL THEN {Min(b.cap, Len(b.w))} ELSE {})
                      \cup {b.cap}))

string_is_equal(a, b) == a = b

(***************************************************************************)
(* get_token                                                               *)
(***************************************************************************)
MAX_TOKEN_LEN == 255

IsBlank(c) == c \in {Ord[" "], TAB, CR, LF}

\* the locals of a running get_token call; done once it has returned rv
TokenFrame(h, token, max_len) ==
    [io |-> h, buf |-> token, c |-> 0, len |-> 0, in_string |-> FALSE,
     max_len |-> max_len, done |-> FALSE, rv |-> 0]

TokenRet(fr, r, h, b) == [fr EXCEPT !.done = TRUE, !.rv = r, !.io = h, !.buf = b]

\* lines 117-123: the byte is kept; b1 is the buffer holding it
get_token_advance(fr, h, b1) ==
    IF fr.len + 1 = fr.max_len
    THEN [TokenRet(fr, fr.len + 1, h, Poke(b1, fr.c + 1, NUL))
             EXCEPT !.len = fr.len + 1, !.c = fr.c + 1]
    ELSE [fr EXCEPT !.io = h, !.buf = b1, !.c = @ + 1, !.len = @ + 1]

\* lines 91-123: the byte ch has been read into *c; b1 is the buffer holding it
get_token_byte(fr, h, ch, b1) ==
    IF IsBlank(ch) THEN
        IF fr.c = 0 THEN [fr EXCEPT !.io = h, !.buf = b1]
        ELSE IF ~fr.in_string THEN TokenRet(fr, fr.len, h, Poke(b1, fr.c, NUL))
        ELSE get_token_advance(fr, h, b1)
    ELSE IF ch = Ord["\""] THEN
        IF fr.c = 0 THEN [fr EXCEPT !.io = h, !.buf = b1, !.in_string = TRUE]
        ELSE TokenRet(fr, fr.len, h, Poke(b1, fr.c, NUL))
    ELSE get_token_advance(fr, h, b1)

\* lines 75-89: r is what intfstream_read(fd, c, 1) returned
get_token_read(fr, r) ==
    IF r.n = 0 THEN TokenRet(fr, 0, r.io, fr.buf)
    ELSE IF r.n < 1 THEN
        IF r.io.errno \in {EINTR, EAGAIN}
        THEN [fr EXCEPT !.io = r.io]
        ELSE TokenRet(fr, 0 - r.io.errno, r.io, fr.buf)
    ELSE get_token_byte(fr, r.io, r.bytes[1], Poke(fr.buf, fr.c, r.bytes[1]))

\* one iteration of the while (1) loop, lines 73-124; c is the index of the
\* write pointer into token
get_token_step(d, fr) == get_token_read(fr, intfstream_read(d, fr.io, 1))

\* up to n iterations of the loop, stopping when the call has returned
RECURSIVE get_token_run(_, _, _)
get_token_run(d, fr, n) ==
    IF fr.done \/ n = 0 THEN fr
    ELSE IF n = 1 THEN get_token_step(d, fr)
    ELSE get_token_run(d, get_token_run(d, fr, n \div 2), n - (n \div 2))

TokenResult(fr) == [rv |-> fr.rv, io |-> fr.io, buf |-> fr.buf, len |-> fr.len]

\* the call runs to its return: every iteration consumes a byte or a failing
\* read, or returns
get_token(d, h, token, max_len) ==
    TokenResult(get_token_run(d, TokenFrame(h, token, max_len),
                              Max(0, d.len - h.pos) + h.flt + 1))

(***************************************************************************)
(* Tokenizer driver: the loop  while (get_token(fd, tmp_token, n) > 0)     *)
(* run over a stream, recording what every call returned.                  *)
(***************************************************************************)
MaxStreamLen == 5

kwFILE == Txt(<<"F", "I", "L", "E">>)
kwTRACK == Txt(<<"T", "R", "A", "C", "K">>)
kwAUDIO == Txt(<<"A", "U", "D", "I", "O">>)
kwINDEX == Txt(<<"I", "N", "D", "E", "X">>)
kwBINARY == Txt(<<"B", "I", "N", "A", "R", "Y">>)
GameBin == Txt(<<"g", "a", "m", "e", ".", "b", "i", "n">>)
Quoted(s) == <<Ord["\""]>> \o s \o <<Ord["\""]>>

\* FILE "game.bin" BINARY
FileLine == kwFILE \o <<Ord[" "]>> \o Quoted(GameBin) \o <<Ord[" "]>> \o kwBINARY

TokAlphabet == {Ord["A"], Ord[" "], Ord["\""], LF}

RECURSIVE SeqsUpTo(_, _)
SeqsUpTo(S, n) ==
    IF n = 0 THEN {<< >>}
    ELSE LET T == SeqsUpTo(S, n - 1)
         IN  T \cup {Append(t, x) : t \in {u \in T : Len(u) = n - 1}, x \in S}

\* the two ways the code sizes a token buffer: find_token (strlen + 1 bytes for
\* strlen characters) and find_first_data_track (MAX_TOKEN_LEN for MAX_TOKEN_LEN)
TokCallSites ==
    { [cap |-> Len(kwINDEX) + 1, max_len |-> Len(kwINDEX)],
      [cap |-> MAX_TOKEN_LEN, max_len |-> MAX_TOKEN_LEN] }

TokFaults ==
    { NoFault,
      [at |-> 2, err |-> EINTR, times |-> 2],
      [at |-> 2, err |-> EAGAIN, times |-> 1],
      [at |-> 2, err |-> EIO, times |-> 1] }

TokInputs ==
    {[name |-> "short", text |-> t, fault |-> NoFault] : t \in SeqsUpTo(TokAlphabet, MaxStreamLen)}
    \cup {[name |-> "file_line", text |-> FileLine \o e, fault |-> f] :
             e \in {<< >>, <<LF>>, <<CR, LF>>}, f \in TokFaults}

TokInit ==
    /\ \E t \in TokInputs, cs \in TokCallSites, g \in {NUL, Ord["x"]} :
         /\ input = [name |-> t.name, text |-> t.text, fault |-> t.fault,
                     max_len |-> cs.max_len]
         /\ data = Stream(Len(t.text), << [at |-> 0, bytes |-> t.text] >>, t.fault)
         /\ tmp_token = Buffer(cs.cap, g)
    /\ io = OpenIo(data, 0)
    /\ pc = "call"
    /\ rv = 0
    /\ tokens = << >>
    /\ track_path = Unused /\ offset = Unused /\ res = Unused /\ ev = Unused
    /\ game_id = Unused /\ system_name = Unused /\ reads = Unused
    /\ buffer = Unused /\ loc = Unused

GetTokenCall ==
    /\ pc = "call"
    /\ \E r \in {get_token(data, io, tmp_token, input.max_len)} :
           /\ io' = r.io
           /\ tmp_token' = r.buf
           /\ rv' = r.rv
           /\ tokens' = Append(tokens, [rv |-> r.rv, len |-> r.len, str |-> CStr(r.buf)])
           /\ pc' = IF r.rv > 0 THEN "call" ELSE "done"
    /\ UNCHANGED <<data, input, track_path, offset, res, ev, game_id, system_name,
                   reads, buffer, loc>>

TokNext == GetTokenCall

SpecTok == TokInit /\ [][TokNext]_vars

\* the tokens returned with a positive value, in order
Returned == SelectSeq(tokens, LAMBDA t : t.rv > 0)

\* C6: tokenizing  FILE "game.bin" BINARY  yields FILE, game.bin and BINARY, each
\* with its length as the return value and the buffer holding exactly the token;
\* and get_token returns 0 only when the stream ended with no token byte consumed
\* (so the last token of a stream is returned before the first 0).
C6_TokenizerRoundTrip ==
    /\ (/\ pc = "done"
        /\ input.name = "file_line"
        /\ input.fault.err \in {0, EINTR, EAGAIN}
        /\ input.max_len = MAX_TOKEN_LEN)
       => Returned = << [rv |-> 4, len |-> 4, str |-> kwFILE],
                        [rv |-> 8, len |-> 8, str |-> GameBin],
                        [rv |-> 6, len |-> 6, str |-> kwBINARY] >>
    /\ \A k \in 1..Len(tokens) : tokens[k].rv = 0 => tokens[k].len = 0

(***************************************************************************)
(* find_token                                                              *)
(***************************************************************************)
\* strncmp(buf, token, n) == 0 for a token of n non-NUL characters
strncmp_eq(b, token, n) == \A i \in 0..(n - 1) : Peek(b, i) = token[i + 1]

\* lines 135-146: the while loop, entered with r, the latest get_token result
RECURSIVE find_token_loop(_, _, _)
find_token_loop(d, r, token) ==
    IF r.rv <= 0 THEN [rv |-> -1, io |-> r.io, oob |-> r.buf.oob]
    ELSE IF strncmp_eq(r.buf, token, Len(token)) THEN [rv |-> 0, io |-> r.io, oob |-> r.buf.oob]
    ELSE find_token_loop(d, get_token(d, r.io, r.buf, Len(token)), token)

\* calloc_ok: whether calloc(tmp_len + 1, 1) succeeds
find_token(d, h, token, calloc_ok) ==
    IF ~calloc_ok THEN [rv |-> -1, io |-> h, oob |-> FALSE]
    ELSE find_token_loop(d, get_token(d, h, Buffer(Len(token) + 1, NUL), Len(token)), token)

(***************************************************************************)
(* sscanf(tmp_token, "%02d:%02d:%02d", &m, &s, &f)                         *)
(***************************************************************************)
RECURSIVE SkipSpace(_, _)
SkipSpace(str, i) ==
    IF i <= Len(str) /\ isspace(str[i]) THEN SkipSpace(str, i + 1) ELSE i

\* a %2d conversion at index i: optional blanks, an optional sign and digits,
\* sign and digits together at most two characters
ScanD2(str, i) ==
    LET j == SkipSpace(str, i)
        signed == j <= Len(str) /\ str[j] \in {Ord["+"], Ord["-"]}
        k == IF signed THEN j + 1 ELSE j
        w == IF signed THEN 1 ELSE 2
        d1 == k <= Len(str) /\ isdigit(str[k])
        d2 == d1 /\ w = 2 /\ k + 1 <= Len(str) /\ isdigit(str[k + 1])
        mag == IF d2 THEN (str[k] - Ord["0"]) * 10 + (str[k + 1] - Ord["0"])
               ELSE IF d1 THEN str[k] - Ord["0"] ELSE 0
    IN  [ok |-> d1,
         val |-> IF signed /\ str[j] = Ord["-"] THEN 0 - mag ELSE mag,
         next |-> IF d2 THEN k + 2 ELSE k + 1]

Colon(str, i) == i <= Len(str) /\ str[i] = Ord[":"]

\* the number of fields assigned and their values
sscanf_msf(str) ==
    LET a == ScanD2(str, 1)
        b == ScanD2(str, a.next + 1)
        c == ScanD2(str, b.next + 1)
    IN  IF SkipSpace(str, 1) > Len(str) THEN [n |-> -1, m |-> 0, s |-> 0, f |-> 0]
        ELSE IF ~a.ok THEN [n |-> 0, m |-> 0, s |-> 0, f |-> 0]
        ELSE IF ~Colon(str, a.next) \/ ~b.ok THEN [n |-> 1, m |-> a.val, s |-> 0, f |-> 0]
        ELSE IF ~Colon(str, b.next) \/ ~c.ok THEN [n |-> 2, m |-> a.val, s |-> b.val, f |-> 0]
        ELSE [n |-> 3, m |-> a.val, s |-> b.val, f |-> c.val]

\* int arithmetic: a product that does not fit in 32 bits is undefined
\* behaviour; the build may wrap it or produce anything else
INT_MAX == 2147483647
INT_MIN == 0 - INT_MAX - 1

Abs(x) == IF x < 0 THEN 0 - x ELSE x

mul_overflows(a, b) == a # 0 /\ b # 0 /\ Abs(a) > INT_MAX \div Abs(b)

\* two's complement addition and multiplication modulo 2^32
add_wrap(x, y) ==
    IF x >= 0 /\ y >= 0 /\ x > INT_MAX - y THEN ((x - INT_MAX) - 1) + ((y - INT_MAX) - 1)
    ELSE IF x < 0 /\ y < 0 /\ x < INT_MIN - y THEN ((x + INT_MAX) + 1) + ((y + INT_MAX) + 1)
    ELSE x + y

twice(x) == add_wrap(x, x)

RECURSIVE mul_wrap(_, _)
mul_wrap(a, b) ==
    IF b = 0 THEN 0
    ELSE IF b < 0 THEN LET p == mul_wrap(a, 0 - b) IN IF p = INT_MIN THEN p ELSE 0 - p
    ELSE IF b % 2 = 1 THEN add_wrap(twice(mul_wrap(a, b \div 2)), a)
    ELSE twice(mul_wrap(a, b \div 2))

\* *offset = ((m * 60) * (s * 75) * f) * 25: the values *offset may receive
msf_offset(m, s, f) ==
    LET a == m * 60
        b == s * 75
        ab == mul_wrap(a, b)
        abf == mul_wrap(ab, f)
        r == mul_wrap(abf, 25)
    IN  IF mul_overflows(a, b) \/ mul_overflows(ab, f) \/ mul_overflows(abf, 25)
        THEN {r, INT_MIN}
        ELSE {r}

(***************************************************************************)
(* find_first_data_track                                                   *)
(***************************************************************************)
\* fill_pathname_basedir(cue_dir, cue_path, ...): the directory part of the path
fill_pathname_basedir(cue_path) == cue_path.dir

\* fill_pathname_join(track_path, cue_dir, name, max_len)
fill_pathname_join(dir, name, max_len) == SubSeq(dir \o name, 1, Min(Len(dir \o name), max_len - 1))

NoEvents ==
    [eof |-> FALSE, track_seen |-> FALSE, index_found |-> FALSE, idx_read |-> FALSE,
     ts_read |-> FALSE, ts_parsed |-> FALSE, ts_failed |-> FALSE, ft_oob |-> FALSE]

\* lines 409-419: allocate the token buffer, create the stream object
CueEntry ==
    /\ pc = "entry"
    /\ tmp_token' = Buffer(MAX_TOKEN_LEN, input.fill)
    /\ IF ~input.init_ok
       THEN /\ res' = [res EXCEPT !.tok_alloc = 1]
            /\ rv' = 0 - io.errno
            /\ pc' = "done"
       ELSE /\ res' = [res EXCEPT !.tok_alloc = 1, !.fd_made = TRUE]
            /\ rv' = rv
            /\ pc' = "open"
    /\ UNCHANGED <<data, io, tokens, track_path, offset, ev, input, game_id,
                   system_name, reads, buffer, loc>>

\* lines 421-430: open the cue file
CueOpen ==
    /\ pc = "open"
    /\ IF ~input.open_ok
       THEN /\ pc' = "error"
            /\ UNCHANGED <<tmp_token, res>>
       ELSE /\ pc' = "loop"
            /\ tmp_token' = Poke(tmp_token, 0, NUL)
            /\ res' = [res EXCEPT !.fd_open = TRUE]
    /\ UNCHANGED <<data, io, rv, tokens, track_path, offset, ev, input, game_id,
                   system_name, reads, buffer, loc>>

TrackResult(next, r, e, offs) ==
    [next |-> next, io |-> r.io, buf |-> r.buf, ev |-> e, offs |-> offs]

\* lines 460-469: r4 is the result of the get_token call reading the timestamp
TrackTimestamp(ft, r3, r4, ts) ==
    TrackResult(IF ts.n < 3 THEN "error" ELSE "clean", r4,
                [ev EXCEPT !.track_seen = TRUE, !.index_found = (ft.rv = 0),
                           !.idx_read = (r3.rv > 0), !.ts_read = (r4.rv > 0),
                           !.ts_parsed = (ts.n = 3), !.ts_failed = (ts.n < 3),
                           !.ft_oob = ft.oob],
                IF ts.n < 3 THEN {} ELSE msf_offset(ts.m, ts.s, ts.f))

TrackIndex3(ft, r3, r4) == TrackTimestamp(ft, r3, r4, sscanf_msf(CStr(r4.buf)))

TrackIndex2(ft, r3) == TrackIndex3(ft, r3, get_token(data, r3.io, r3.buf, MAX_TOKEN_LEN))

\* lines 456-458: find_token(fd, "INDEX") and the two get_token calls after it
TrackIndex(r2, ft) == TrackIndex2(ft, get_token(data, ft.io, r2.buf, MAX_TOKEN_LEN))

\* every track is taken for a data track
TrackTypeNoSkip(r2) == TrackIndex(r2, find_token(data, r2.io, kwINDEX, input.calloc_ok))

\* lines 453-456: r2 is the result of the get_token call reading the track type
TrackType(r2) ==
    IF string_is_equal(CStr(r2.buf), kwAUDIO)
    THEN TrackResult("loop", r2, ev, {})
    ELSE TrackIndex(r2, find_token(data, r2.io, kwINDEX, input.calloc_ok))

TrackNumber(r1) == TrackType(get_token(data, r1.io, r1.buf, MAX_TOKEN_LEN))

\* lines 447-470: the TRACK branch, entered with r0, the result that read TRACK
TrackBranch(r0) == TrackNumber(get_token(data, r0.io, r0.buf, MAX_TOKEN_LEN))

\* lines 432-473: one iteration of the while loop
CueParseStep ==
    /\ pc = "loop"
    /\ \E r0 \in {get_token(data, io, tmp_token, MAX_TOKEN_LEN)} :
       \E word \in {CStr(r0.buf)} :
       IF r0.rv <= 0
       THEN /\ rv' = 0 - EINVAL
            /\ pc' = "clean"
            /\ io' = r0.io
            /\ tmp_token' = r0.buf
            /\ ev' = [ev EXCEPT !.eof = TRUE]
            /\ UNCHANGED <<track_path, offset>>
       ELSE IF string_is_equal(word, kwFILE)
       THEN \E r1 \in {get_token(data, r0.io, r0.buf, MAX_TOKEN_LEN)} :
                /\ track_path' = fill_pathname_join(fill_pathname_basedir(input.cue_path),
                                                    CStr(r1.buf), input.max_len)
                /\ io' = r1.io
                /\ tmp_token' = r1.buf
                /\ pc' = "loop"
                /\ UNCHANGED <<rv, offset, ev>>
       ELSE IF string_is_equal(word, kwTRACK)
       THEN \E t \in {TrackBranch(r0)} :
                /\ io' = t.io
                /\ tmp_token' = t.buf
                /\ ev' = t.ev
                /\ pc' = t.next
                /\ IF t.next = "clean"
                   THEN offset' \in t.offs /\ rv' = 0
                   ELSE UNCHANGED <<offset, rv>>
                /\ UNCHANGED track_path
       ELSE /\ io' = r0.io
            /\ tmp_token' = r0.buf
            /\ pc' = "loop"
            /\ UNCHANGED <<rv, track_path, offset, ev>>
    /\ UNCHANGED <<data, tokens, res, input, game_id, system_name, reads, buffer, loc>>

\* lines 475-478
CueClean ==
    /\ pc = "clean"
    /\ res' = [res EXCEPT !.tok_free = @ + 1, !.fd_close = @ + 1]
    /\ pc' = "done"
    /\ UNCHANGED <<data, io, rv, tmp_token, tokens, track_path, offset, ev, input,
                   game_id, system_name, reads, buffer, loc>>

\* lines 480-484
CueError ==
    /\ pc = "error"
    /\ res' = [res EXCEPT !.tok_free = @ + 1,
                          !.fd_close = IF res.fd_made THEN @ + 1 ELSE @]
    /\ rv' = 0 - io.errno
    /\ pc' = "done"
    /\ UNCHANGED <<data, io, tmp_token, tokens, track_path, offset, ev, input,
                   game_id, system_name, reads, buffer, loc>>

CueNext == CueEntry \/ CueOpen \/ CueParseStep \/ CueClean \/ CueError

(***************************************************************************)
(* Cue sheets given to find_first_data_track                               *)
(***************************************************************************)
MaxLines == 2
PathCap == 32

SP == Ord[" "]
Dec2(n) == << Ord["0"] + (n \div 10), Ord["0"] + (n % 10) >>
TsText(t) == Dec2(t.m) \o <<Ord[":"]>> \o Dec2(t.s) \o <<Ord[":"]>> \o Dec2(t.f)
Msf(m, s, f) == [m |-> m, s |-> s, f |-> f]

Mode2 == Txt(<<"M", "O", "D", "E", "2", "/", "2", "3", "5", "2">>)
Mode1 == Txt(<<"M", "O", "D", "E", "1", "/", "2", "0", "4", "8">>)
ABin == Txt(<<"a", ".", "b", "i", "n">>)
BBin == Txt(<<"b", ".", "b", "i", "n">>)
MyGame == Txt(<<"m", "y", " ", "g", "a", "m", "e">>)
BadTs == Txt(<<"x", "x", ":", "y", "y", ":", "z", "z">>)

FileL(name) == kwFILE \o <<SP>> \o Quoted(name) \o <<SP>> \o kwBINARY
TrackL(n, type) == <<SP, SP>> \o kwTRACK \o <<SP>> \o Dec2(n) \o <<SP>> \o type
IndexL(ts) == <<SP, SP, SP, SP>> \o kwINDEX \o <<SP>> \o Dec2(1) \o <<SP>> \o ts

\* the lines joined by eol, the last one followed by trail
RECURSIVE JoinLines(_, _, _)
JoinLines(lines, eol, trail) ==
    IF lines = << >> THEN << >>
    ELSE IF Len(lines) = 1 THEN lines[1] \o trail
    ELSE lines[1] \o eol \o JoinLines(Tail(lines), eol, trail)

CueDirs == { Txt(<<"d", "/">>), << >> }

\* an audio track followed by a data track, optionally with a FILE of its own
AudioDataInputs ==
    { [shape |-> "audio_data",
       text |-> JoinLines(<< FileL(n1), TrackL(1, kwAUDIO), IndexL(TsText(t1)) >>
                          \o (IF n2 = << >> THEN << >> ELSE << FileL(n2) >>)
                          \o << TrackL(2, ty), IndexL(TsText(t2)) >>, eol, trail),
       name |-> IF n2 = << >> THEN n1 ELSE n2,
       ts |-> t2, audio_ts |-> t1,
       fault |-> NoFault, init_ok |-> TRUE, open_ok |-> TRUE, calloc_ok |-> TRUE,
       errno0 |-> 0, dir |-> dir, fill |-> g] :
      n1 \in {ABin, MyGame}, n2 \in {<< >>, BBin}, ty \in {Mode2, Mode1},
      t1 \in {Msf(0, 0, 0), Msf(1, 1, 1)},
      t2 \in {Msf(0, 2, 0), Msf(1, 2, 2), Msf(22, 21, 12), Msf(70, 50, 50)},
      eol \in {<<LF>>, <<CR, LF>>}, trail \in {<< >>, <<LF>>},
      dir \in CueDirs, g \in {NUL, Ord["7"]} }

SheetLines ==
    { FileL(ABin), TrackL(1, kwAUDIO), TrackL(1, Mode1), TrackL(1, TsText(Msf(0, 2, 0))),
      IndexL(TsText(Msf(0, 2, 0))), IndexL(BadTs), IndexL(TsText(Msf(99, 99, 99))) }

CueEnvs ==
    { [init_ok |-> TRUE, open_ok |-> TRUE, calloc_ok |-> TRUE, errno0 |-> 0, fault |-> NoFault],
      [init_ok |-> TRUE, open_ok |-> TRUE, calloc_ok |-> TRUE, errno0 |-> EIO, fault |-> NoFault],
      [init_ok |-> FALSE, open_ok |-> TRUE, calloc_ok |-> TRUE, errno0 |-> EIO, fault |-> NoFault],
      [init_ok |-> TRUE, open_ok |-> FALSE, calloc_ok |-> TRUE, errno0 |-> EIO, fault |-> NoFault],
      [init_ok |-> TRUE, open_ok |-> TRUE, calloc_ok |-> FALSE, errno0 |-> 0, fault |-> NoFault],
      [init_ok |-> TRUE, open_ok |-> TRUE, calloc_ok |-> TRUE, errno0 |-> 0,
       fault |-> [at |-> 8, err |-> EINTR, times |-> 2]],
      [init_ok |-> TRUE, open_ok |-> TRUE, calloc_ok |-> TRUE, errno0 |-> 0,
       fault |-> [at |-> 8, err |-> EIO, times |-> 1]] }

\* sheets of up to MaxLines lines, under every environment
SheetInputs ==
    { [shape |-> "sheet", text |-> JoinLines(ls, <<LF>>, trail),
       name |-> << >>, ts |-> Msf(0, 0, 0), audio_ts |-> Msf(0, 0, 0),
       fault |-> env.fault, init_ok |-> env.init_ok, open_ok |-> env.open_ok,
       calloc_ok |-> env.calloc_ok, errno0 |-> env.errno0, dir |-> << >>, fill |-> g] :
      ls \in SeqsUpTo(SheetLines, MaxLines), trail \in {<< >>, <<LF>>},
      env \in CueEnvs, g \in {NUL, Ord["7"]} }

\* one token of n characters, n around MAX_TOKEN_LEN
LongInputs ==
    { [shape |-> "long", text |-> [i \in 1..n |-> Ord["A"]] \o <<LF>>,
       name |-> << >>, ts |-> Msf(0, 0, 0), audio_ts |-> Msf(0, 0, 0),
       fault |-> NoFault, init_ok |-> TRUE, open_ok |-> TRUE, calloc_ok |-> TRUE,
       errno0 |-> 0, dir |-> << >>, fill |-> NUL] :
      n \in (MAX_TOKEN_LEN - 1)..(MAX_TOKEN_LEN + 1) }

CueInputs == AudioDataInputs \cup SheetInputs \cup LongInputs

CueInit ==
    /\ \E c \in CueInputs :
         /\ input = [shape |-> c.shape, name |-> c.name, ts |-> c.ts,
                     audio_ts |-> c.audio_ts, text |-> c.text,
                     init_ok |-> c.init_ok, open_ok |-> c.open_ok,
                     calloc_ok |-> c.calloc_ok, fault |-> c.fault, fill |-> c.fill,
                     cue_path |-> [dir |-> c.dir], max_len |-> PathCap]
         /\ data = Stream(Len(c.text), << [at |-> 0, bytes |-> c.text] >>, c.fault)
         /\ io = OpenIo(data, c.errno0)
    /\ pc = "entry"
    /\ rv = "unset"
    /\ tmp_token = Unused
    /\ track_path = "unset"
    /\ offset = "unset"
    /\ res = [tok_alloc |-> 0, tok_free |-> 0, fd_made |-> FALSE, fd_open |-> FALSE,
              fd_close |-> 0]
    /\ ev = NoEvents
    /\ tokens = Unused /\ game_id = Unused /\ system_name = Unused
    /\ reads = Unused /\ buffer = Unused /\ loc = Unused

SpecCue == CueInit /\ [][CueNext]_vars

Done == pc = "done"

CleanRun == input.init_ok /\ input.open_ok /\ input.calloc_ok /\ input.fault = NoFault

\* the product of the timestamp t is computed without leaving the range of int
FitsInt(t) ==
    /\ ~mul_overflows(t.m * 60, t.s * 75)
    /\ ~mul_overflows(mul_wrap(t.m * 60, t.s * 75), t.f)
    /\ ~mul_overflows(mul_wrap(mul_wrap(t.m * 60, t.s * 75), t.f), 25)

\* C1: on a cue sheet with a FILE entry, an AUDIO track with its INDEX, then a
\* data track with its INDEX, find_first_data_track returns 0, track_path is the
\* cue directory joined with the name of the last FILE before the data track, and
\* *offset is ((m*60)*(s*75)*f)*25 of the data track's timestamp (the value of
\* the C expression, defined when the product stays within int).
C1_AudioThenData ==
    (Done /\ input.shape = "audio_data" /\ CleanRun) =>
        /\ rv = 0
        /\ track_path = input.cue_path.dir \o input.name
        /\ FitsInt(input.ts) =>
              offset = ((input.ts.m * 60) * (input.ts.s * 75) * input.ts.f) * 25
        /\ (input.ts = Msf(0, 2, 0) => offset = 0)

C1_Witness ==
    /\ Done /\ input.shape = "audio_data" /\ CleanRun
    /\ input.ts = Msf(1, 2, 2) /\ input.audio_ts = Msf(1, 1, 1)
    /\ rv = 0 /\ offset = 450000

\* C7: no get_token call writes outside the buffer its caller allocated, at the
\* find_token call site and at the find_first_data_track call site.
C7_NoWriteOutsideBuffer ==
    pc \in {"loop", "clean", "error", "done"} => (~tmp_token.oob /\ ~ev.ft_oob)

\* C8: on every exit path of find_first_data_track the token buffer has been
\* freed exactly once and the created stream handle closed exactly once.
C8_ReleasedOnEveryExit ==
    Done => /\ res.tok_free = res.tok_alloc
            /\ res.tok_free = 1
            /\ (res.fd_made => res.fd_close = 1)

\* C10: find_first_data_track returns 0 only after a non-AUDIO TRACK, an INDEX
\* token, an index number and a timestamp that parses as three fields; at the
\* end of the stream without such a track it returns a negative error, and on a
\* timestamp that does not parse it returns a negative error, *offset unwritten.
C10_ZeroOnlyForDataTrack ==
    (Done /\ input.init_ok /\ input.open_ok) =>
        /\ (rv = 0 => /\ ev.track_seen /\ ev.index_found /\ ev.idx_read
                      /\ ev.ts_read /\ ev.ts_parsed)
        /\ (ev.eof => rv < 0)
        /\ (ev.ts_failed => (rv < 0 /\ offset = "unset"))

(***************************************************************************)
(* detect_system                                                           *)
(***************************************************************************)
MAGIC_LEN == 17

NULL == "NULL"

MAGIC_NUMBERS ==
    << [offset |-> 0, system_name |-> "ps1",
        magic |-> <<0, 255, 255, 255, 255, 255, 255, 255, 255, 255, 255, 0, 0, 2, 0, 2, 0>>],
       [offset |-> 8620096, system_name |-> "pcecd",
        magic |-> <<130, 177, 130, 204, 131, 118, 131, 141, 131, 79, 131, 137, 131, 128,
                    130, 204, 146>>],
       [offset |-> 0, system_name |-> "scd",
        magic |-> <<0, 255, 255, 255, 255, 255, 255, 255, 255, 255, 255, 0, 0, 2, 0, 1, 83>>],
       [offset |-> 0, system_name |-> NULL, magic |-> << >>] >>

\* MAGIC_NUMBERS[i] with the C index i
Rule(i) == MAGIC_NUMBERS[i + 1]

PspGame == Txt(<<"P", "S", "P", " ", "G", "A", "M", "E">>)
PSP_OFFSET == 32776

\* a comparison of at most n bytes that stops at the first NUL, as strncmp does
string_is_equal_cstr(magic, buf, n) ==
    LET m == IF \E k \in 1..n : magic[k] = NUL
             THEN Least({k \in 1..n : magic[k] = NUL}) - 1 ELSE n
    IN  \A k \in 1..m : Peek(buf, k - 1) = magic[k]

\* string_is_equal_fast(magic, buf, n): memcmp over n bytes
string_is_equal_fast(magic, buf, n) == \A k \in 1..n : Peek(buf, k - 1) = magic[k]

\* the comparison stops at the first NUL of the pattern
RuleHitUpToNul(i, magic) == string_is_equal_cstr(Rule(i).magic, magic, MAGIC_LEN)

\* line 377
RuleHit(i, magic) == string_is_equal_fast(Rule(i).magic, magic, MAGIC_LEN)

ReadRec(at, n, got) == [at |-> at, n |-> n, got |-> got]

\* lines 365-383: one iteration of the for loop; r is what the read returned
SysRuleRead(r) ==
    /\ io' = r.io
    /\ reads' = Append(reads, ReadRec(Rule(loc.i).offset, MAGIC_LEN, r.n))
    /\ IF r.n < MAGIC_LEN
       THEN /\ rv' = 0 - r.io.errno
            /\ pc' = "done"
            /\ buffer' = PokeSeq(buffer, 0, r.bytes)
            /\ UNCHANGED <<system_name, loc>>
       ELSE \E magic \in {PokeSeq(buffer, 0, r.bytes)} :
            /\ buffer' = magic
            /\ IF RuleHit(loc.i, magic)
               THEN /\ system_name' = Rule(loc.i).system_name
                    /\ rv' = 0
                    /\ pc' = "done"
                    /\ UNCHANGED loc
               ELSE /\ loc' = [loc EXCEPT !.i = @ + 1]
                    /\ UNCHANGED <<system_name, rv, pc>>

SysRule ==
    /\ pc = "rule"
    /\ Rule(loc.i).system_name # NULL
    /\ \E r \in {intfstream_read(data, intfstream_seek(data, io, Rule(loc.i).offset),
                                MAGIC_LEN)} : SysRuleRead(r)
    /\ UNCHANGED <<data, tmp_token, tokens, track_path, offset, res, ev, input, game_id>>

\* lines 385-399: after the table, the PSP check at 0x8008
SysPsp ==
    /\ pc = "rule"
    /\ Rule(loc.i).system_name = NULL
    /\ \E r \in {intfstream_read(data, intfstream_seek(data, io, PSP_OFFSET), 8)} :
          /\ io' = r.io
          /\ reads' = Append(reads, ReadRec(PSP_OFFSET, 8, r.n))
          /\ IF r.n > 0
             THEN \E magic \in {Poke(PokeSeq(buffer, 0, r.bytes), 8, NUL)} :
                  /\ buffer' = magic
                  /\ IF CStr(magic) # << >> /\ string_is_equal(CStr(magic), PspGame)
                     THEN system_name' = "psp" /\ rv' = 0
                     ELSE rv' = 0 - EINVAL /\ UNCHANGED system_name
             ELSE /\ rv' = 0 - EINVAL
                  /\ UNCHANGED <<buffer, system_name>>
    /\ pc' = "done"
    /\ UNCHANGED <<data, tmp_token, tokens, track_path, offset, res, ev, input, game_id, loc>>

SysNext == SysRule \/ SysPsp

(***************************************************************************)
(* Images given to detect_system: what lies at offset 0, at the pcecd      *)
(* offset and at 0x8008, and where the image ends.                         *)
(***************************************************************************)
SysHeads == { Rule(0).magic, Rule(2).magic, Rule(1).magic, Zeros(MAGIC_LEN),
              SubSeq(Rule(0).magic, 1, MAGIC_LEN - 1) \o <<1>> }

SysMids == { Rule(1).magic, Rule(0).magic, Zeros(MAGIC_LEN) }

SysPsps == { PspGame, SubSeq(PspGame, 1, 7) \o <<Ord["X"]>>, Zeros(8) }

SysLens == { 0, 5, MAGIC_LEN - 1, MAGIC_LEN, PSP_OFFSET + 8,
             Rule(1).offset + MAGIC_LEN - 1, Rule(1).offset + MAGIC_LEN,
             Rule(1).offset + MAGIC_LEN + PSP_OFFSET }

SysFaults == { NoFault, [at |-> 2, err |-> EIO, times |-> 1],
               [at |-> Rule(1).offset, err |-> EIO, times |-> 1] }

SysInit ==
    /\ \E h \in SysHeads, m \in SysMids, p \in SysPsps, n \in SysLens, f \in SysFaults,
          e0 \in {0, EIO}, g \in {NUL, Ord["P"]} :
         /\ data = Stream(n, << [at |-> 0, bytes |-> h], [at |-> Rule(1).offset, bytes |-> m],
                               [at |-> PSP_OFFSET, bytes |-> p] >>, f)
         /\ io = OpenIo(data, e0)
         /\ buffer = Buffer(MAGIC_LEN, g)
         /\ input = [errno0 |-> e0]
    /\ pc = "rule"
    /\ rv = "unset"
    /\ system_name = "unset"
    /\ reads = << >>
    /\ loc = [i |-> 0]
    /\ tmp_token = Unused /\ tokens = Unused /\ track_path = Unused /\ offset = Unused
    /\ res = Unused /\ ev = Unused /\ game_id = Unused

SpecSys == SysInit /\ [][SysNext]_vars

\* the 17 bytes of the image at rule k's offset are rule k's pattern
RuleMatches(k) ==
    /\ Rule(k).offset + MAGIC_LEN <= data.len
    /\ \A j \in 1..MAGIC_LEN : ByteAt(data, Rule(k).offset + j - 1) = Rule(k).magic[j]

RuleIds == {k \in 0..(Len(MAGIC_NUMBERS) - 1) : Rule(k).system_name # NULL}

AllReadsFull == \A k \in 1..Len(reads) : reads[k].got = reads[k].n

\* C3: when every read is full and some rule's pattern is in the image,
\* detect_system returns 0 with the name of the lowest-indexed such rule, having
\* read for the rules up to that one only (no later rule, no PSP read).
C3_FirstMatchWins ==
    (Done /\ AllReadsFull /\ \E k \in RuleIds : RuleMatches(k)) =>
        LET first == Least({k \in RuleIds : RuleMatches(k)}) IN
        /\ rv = 0
        /\ system_name = Rule(first).system_name
        /\ Len(reads) = first + 1
        /\ \A k \in 1..Len(reads) : reads[k].at = Rule(k - 1).offset /\ reads[k].n = MAGIC_LEN

C3_Witness ==
    /\ Done /\ AllReadsFull
    /\ ~RuleMatches(0) /\ RuleMatches(1) /\ RuleMatches(2)
    /\ system_name = "pcecd" /\ rv = 0 /\ Len(reads) = 2

\* C9: when the read at a rule's offset returns fewer than 17 bytes,
\* detect_system returns a negative code, leaves *system_name unset and issues
\* no further read.
C9_ShortReadIsError ==
    (Done /\ \E k \in 1..Len(reads) : reads[k].n = MAGIC_LEN /\ reads[k].got < MAGIC_LEN) =>
        /\ rv < 0
        /\ system_name = "unset"
        /\ reads[Len(reads)].got < MAGIC_LEN
        /\ \A k \in 1..(Len(reads) - 1) : reads[k].got = MAGIC_LEN

(***************************************************************************)
(* detect_psp_game                                                         *)
(***************************************************************************)
PSP_SCAN_LIMIT == 100000
GameIdCap == 32

PspPrefixes ==
    { Txt(<<"U", "L", "E", "S", "-">>), Txt(<<"U", "L", "U", "S", "-">>),
      Txt(<<"U", "L", "J", "S", "-">>), Txt(<<"U", "L", "E", "M", "-">>),
      Txt(<<"U", "L", "U", "M", "-">>), Txt(<<"U", "L", "J", "M", "-">>),
      Txt(<<"U", "C", "E", "S", "-">>), Txt(<<"U", "C", "U", "S", "-">>),
      Txt(<<"U", "C", "J", "S", "-">>), Txt(<<"U", "C", "A", "S", "-">>),
      Txt(<<"N", "P", "E", "H", "-">>), Txt(<<"N", "P", "U", "H", "-">>),
      Txt(<<"N", "P", "J", "H", "-">>), Txt(<<"N", "P", "E", "G", "-">>),
      Txt(<<"N", "P", "U", "G", "-">>), Txt(<<"N", "P", "J", "G", "-">>),
      Txt(<<"N", "P", "H", "G", "-">>), Txt(<<"N", "P", "E", "Z", "-">>),
      Txt(<<"N", "P", "U", "Z", "-">>), Txt(<<"N", "P", "J", "Z", "-">>) }

\* what the reads have touched so far: how many, and the highest offset sought
Touch(at) == [count |-> reads.count + 1, max_at |-> Max(reads.max_at, at)]
Touch2(at) == [count |-> reads.count + 2, max_at |-> Max(reads.max_at, at)]

\* lines 295-306: a prefix matched at pos; r2 is what the 10-byte read returned
PspMatched(r2) ==
    /\ io' = r2.io
    /\ reads' = Touch2(loc.pos)
    /\ IF r2.n > 0
       THEN /\ game_id' = Poke(PokeSeq(Poke(game_id, 5, NUL), 0, r2.bytes), 10, NUL)
            /\ rv' = TRUE
       ELSE /\ game_id' = Poke(game_id, 5, NUL)
            /\ UNCHANGED rv
    /\ pc' = "done"
    /\ UNCHANGED loc

\* lines 261-310: r is what the 5-byte read at pos returned
PspRead(r) ==
    IF r.n > 0
    THEN \E id \in {Poke(PokeSeq(game_id, 0, r.bytes), 5, NUL)} :
         IF \E pre \in PspPrefixes : string_is_equal(CStr(id), pre)
         THEN \E r2 \in {intfstream_read(data, intfstream_seek(data, r.io, loc.pos), 10)} :
                 PspMatched(r2)
         ELSE /\ game_id' = id
              /\ io' = r.io
              /\ reads' = Touch(loc.pos)
              /\ loc' = [loc EXCEPT !.pos = @ + 1]
              /\ UNCHANGED <<rv, pc>>
    ELSE /\ io' = r.io
         /\ reads' = Touch(loc.pos)
         /\ pc' = "done"
         /\ UNCHANGED <<game_id, rv, loc>>

\* one iteration of the for loop, lines 259-311
PspStep ==
    /\ pc = "scan"
    /\ loc.pos < PSP_SCAN_LIMIT
    /\ \E r \in {intfstream_read(data, intfstream_seek(data, io, loc.pos), 5)} : PspRead(r)
    /\ UNCHANGED <<data, tmp_token, tokens, track_path, offset, res, ev, input,
                   system_name, buffer>>

\* the loop ends with pos = 100000, line 313
PspEnd ==
    /\ pc = "scan"
    /\ loc.pos >= PSP_SCAN_LIMIT
    /\ pc' = "done"
    /\ UNCHANGED <<data, io, rv, tmp_token, tokens, track_path, offset, res, ev, input,
                   game_id, system_name, reads, buffer, loc>>

PspNext == PspStep \/ PspEnd

(***************************************************************************)
(* Images given to detect_psp_game                                         *)
(***************************************************************************)
Fill(n, c) == [k \in 1..n |-> c]

PspSegs ==
    { Txt(<<"U", "L", "U", "S", "-", "1", "2", "3", "4", "5">>),
      Txt(<<"N", "P", "J", "Z", "-", "0", "0", "0", "0", "1">>),
      Txt(<<"U", "L", "U", "S", "-", "1", "2">>),
      Txt(<<"U", "L", "E", "S", "-">>),
      Txt(<<"U", "L", "E", "S">>),
      Txt(<<"u", "l", "u", "s", "-", "1", "2", "3", "4", "5">>),
      Txt(<<"X", "L", "U", "S", "-", "1", "2", "3", "4", "5">>) }

PspTails == { << >>, Txt(<<"y", "y">>),
              Txt(<<"y", "U", "C", "E", "S", "-", "9", "9", "9", "9", "9", "y">>) }

PspPads == {0, 1, 37}

PspFaults == { NoFault, [at |-> 3, err |-> EIO, times |-> 1] }

PspShortInputs ==
    { [len |-> k + Len(seg) + Len(tail),
       segs |-> << [at |-> 0, bytes |-> Fill(k, Ord["x"]) \o seg \o tail] >>,
       fault |-> f] :
      k \in PspPads, seg \in PspSegs, tail \in PspTails, f \in PspFaults }

\* images longer than the scanned range, with a serial at its last offset or
\* just past it
PspLongInputs ==
    { [len |-> PSP_SCAN_LIMIT + 20,
       segs |-> << [at |-> at, bytes |-> Txt(<<"U", "L", "U", "S", "-", "1", "2", "3", "4", "5">>)] >>,
       fault |-> NoFault] : at \in {PSP_SCAN_LIMIT - 1, PSP_SCAN_LIMIT} }

PspInit ==
    /\ \/ /\ data \in PspShortInputs
          /\ game_id \in {Buffer(GameIdCap, g) : g \in {NUL, Ord["-"], Ord["Z"]}}
       \/ /\ data \in PspLongInputs
          /\ game_id = Buffer(GameIdCap, NUL)
    /\ io = OpenIo(data, 0)
    /\ pc = "scan"
    /\ rv = FALSE
    /\ loc = [pos |-> 0]
    /\ reads = [count |-> 0, max_at |-> 0]
    /\ input = Unused /\ system_name = Unused /\ buffer = Unused
    /\ tmp_token = Unused /\ tokens = Unused /\ track_path = Unused /\ offset = Unused
    /\ res = Unused /\ ev = Unused

SpecPsp == PspInit /\ [][PspNext]_vars

\* the image holds the bytes s at offset p
HoldsAt(p, s) == p + Len(s) <= data.len /\ \A k \in 1..Len(s) : ByteAt(data, p + k - 1) = s[k]

PrefixAt(p) == \E pre \in PspPrefixes : HoldsAt(p, pre)

\* the offsets below 100000 at which a publisher prefix lies (a prefix can only
\* lie inside a segment of the image: the background is zero)
PrefixOffsets ==
    { p \in UNION { (data.segs[k].at)..(data.segs[k].at + Len(data.segs[k].bytes)) :
                    k \in 1..Len(data.segs) } : p < PSP_SCAN_LIMIT /\ PrefixAt(p) }

\* C4: detect_psp_game returns true exactly when a publisher prefix lies at some
\* offset below 100000; game_id is then the 10 image bytes at the lowest such
\* offset, terminated at index 10, and nothing past that offset is sought.
C4_PspSerial ==
    (Done /\ data.fault = NoFault) =>
        /\ rv = (PrefixOffsets # {})
        /\ rv => LET p == Least(PrefixOffsets) IN
                 /\ HoldsAt(p, Prefix(game_id, 10))
                 /\ Peek(game_id, 10) = NUL
                 /\ reads.max_at <= p

(***************************************************************************)
(* detect_serial_ascii_game                                                *)
(***************************************************************************)
SERIAL_SCAN_LIMIT == 10000

\* line 338: A-Z, 0-9, -
IsSerialChar(c) == c = 45 \/ (c >= 48 /\ c <= 57) \/ (c >= 65 /\ c <= 90)

\* lines 335-342: the number of leading serial characters among game_id[0..14]
numberOfAscii(id) ==
    Least({i \in 0..14 : ~IsSerialChar(Peek(id, i))} \cup {15})

\* lines 329-352: the 15-byte read at pos returned r.n > 0 bytes
SerialRead(r) ==
    \E id \in {Poke(PokeSeq(game_id, 0, r.bytes), 15, NUL)} :
    \E n \in {numberOfAscii(id)} :
       /\ io' = r.io
       /\ reads' = Touch(loc.pos)
       /\ IF n > 3 /\ n < 9
          THEN /\ game_id' = Poke(id, n, NUL)
               /\ rv' = TRUE
               /\ pc' = "done"
               /\ loc' = [loc EXCEPT !.numberOfAscii = n]
          ELSE /\ game_id' = id
               /\ loc' = [loc EXCEPT !.pos = @ + 1, !.numberOfAscii = n]
               /\ UNCHANGED <<rv, pc>>

\* from this position on every read returns 0
SerialPastEnd == loc.pos >= data.len /\ io.flt = 0

\* one iteration of the for loop, lines 325-353
SerialStep ==
    /\ pc = "scan"
    /\ loc.pos < SERIAL_SCAN_LIMIT
    /\ ~SerialPastEnd
    /\ \E r \in {intfstream_read(data, intfstream_seek(data, io, loc.pos), 15)} :
          IF r.n > 0 THEN SerialRead(r)
          ELSE /\ io' = r.io
               /\ reads' = Touch(loc.pos)
               /\ loc' = [loc EXCEPT !.pos = @ + 1]
               /\ UNCHANGED <<game_id, rv, pc>>
    /\ UNCHANGED <<data, tmp_token, tokens, track_path, offset, res, ev, input,
                   system_name, buffer>>

\* the iterations past the end of the image: each seeks, reads 0 bytes and
\* changes nothing but pos, up to the scan limit; they are taken together
SerialIdle ==
    /\ pc = "scan"
    /\ loc.pos < SERIAL_SCAN_LIMIT
    /\ SerialPastEnd
    /\ io' = intfstream_seek(data, io, SERIAL_SCAN_LIMIT - 1)
    /\ reads' = [count |-> reads.count + (SERIAL_SCAN_LIMIT - loc.pos),
                 max_at |-> SERIAL_SCAN_LIMIT - 1]
    /\ loc' = [loc EXCEPT !.pos = SERIAL_SCAN_LIMIT]
    /\ UNCHANGED <<data, pc, rv, tmp_token, tokens, track_path, offset, res, ev, input,
                   game_id, system_name, buffer>>

\* the loop ends with pos = 10000, line 355
SerialEnd ==
    /\ pc = "scan"
    /\ loc.pos >= SERIAL_SCAN_LIMIT
    /\ pc' = "done"
    /\ UNCHANGED <<data, io, rv, tmp_token, tokens, track_path, offset, res, ev, input,
                   game_id, system_name, reads, buffer, loc>>

SerialNext == SerialStep \/ SerialIdle \/ SerialEnd

(***************************************************************************)
(* Images given to detect_serial_ascii_game                                *)
(***************************************************************************)
MaxRun == 10

\* AB-1234XYZ, continued with digits
RunText(n) == [k \in 1..n |-> IF k <= 10 THEN Txt(<<"A", "B", "-", "1", "2", "3", "4", "X", "Y", "Z">>)[k]
                                          ELSE Ord["0"] + (k % 10)]

Junk(n) == Fill(n, 255)

SerialTexts ==
    { Junk(a) \o RunText(n) \o Junk(b) : a \in {0, 1, 2}, n \in 0..MaxRun, b \in {0, 1, 15} }
    \cup { Junk(a) \o RunText(n) \o Junk(1) \o Txt(<<"W", "X", "Y", "Z", "9">>) \o Junk(b) :
           a \in {0, 1}, n \in {3, 9}, b \in {0, 1} }
    \cup { Txt(<<"a", "b", "c", "d", "e", "f">>) }

SerialShortInputs ==
    { [len |-> Len(t), segs |-> << [at |-> 0, bytes |-> t] >>, fault |-> f] :
      t \in SerialTexts, f \in {NoFault, [at |-> 1, err |-> EIO, times |-> 1]} }

\* images longer than the scanned range, with a serial at its last offset or
\* just past it
SerialLongInputs ==
    { [len |-> SERIAL_SCAN_LIMIT + 20,
       segs |-> << [at |-> at, bytes |-> Txt(<<"S", "L", "U", "S">>)] >>,
       fault |-> NoFault] : at \in {SERIAL_SCAN_LIMIT - 1, SERIAL_SCAN_LIMIT} }

SerialInit ==
    /\ \/ /\ data \in SerialShortInputs
          /\ game_id \in {Buffer(GameIdCap, g) : g \in {NUL, Ord["Q"]}}
       \/ /\ data \in SerialLongInputs
          /\ game_id = Buffer(GameIdCap, NUL)
    /\ io = OpenIo(data, 0)
    /\ pc = "scan"
    /\ rv = FALSE
    /\ loc = [pos |-> 0, numberOfAscii |-> 0]
    /\ reads = [count |-> 0, max_at |-> 0]
    /\ input = Unused /\ system_name = Unused /\ buffer = Unused
    /\ tmp_token = Unused /\ tokens = Unused /\ track_path = Unused /\ offset = Unused
    /\ res = Unused /\ ev = Unused

SpecSerial == SerialInit /\ [][SerialNext]_vars

\* the offsets of the image's segments (everything else is zero)
SegOffsets ==
    UNION { (data.segs[k].at)..(data.segs[k].at + Len(data.segs[k].bytes) - 1) :
            k \in 1..Len(data.segs) }

SerialAt(p) == p < data.len /\ IsSerialChar(ByteAt(data, p))

\* the maximal runs of serial characters that begin in the scanned range
RunStarts == {p \in SegOffsets : p < SERIAL_SCAN_LIMIT /\ SerialAt(p)
                                  /\ (p = 0 \/ ~SerialAt(p - 1))}

RunLen(p) == Least({n \in 1..(data.len - p) : ~SerialAt(p + n)})

\* C5: detect_serial_ascii_game returns true only with game_id a string of 4 to
\* 8 serial characters equal to the image bytes at some offset below 10000 and cut
\* at the first other character; an image whose only run of serial characters is
\* of length 3 or less, or 9 or more, yields false.
C5_SerialRun ==
    (Done /\ data.fault = NoFault) =>
        /\ rv => LET id == CStr(game_id) IN
                 /\ Len(id) >= 4 /\ Len(id) <= 8
                 /\ \A k \in 1..Len(id) : IsSerialChar(id[k])
                 /\ \E p \in SegOffsets :
                       /\ p < SERIAL_SCAN_LIMIT
                       /\ HoldsAt(p, id)
                       /\ ~SerialAt(p + Len(id))
        /\ (\E p \in RunStarts : RunStarts = {p} /\ (RunLen(p) <= 3 \/ RunLen(p) >= 9))
              => (rv = FALSE)

(***************************************************************************)
(* detect_ps1_game_sub                                                     *)
(***************************************************************************)
BUFFER_SIZE == 4096

\* the bytes of MODETEST_VAL as they lie in memory (either byte order)
MODETEST_BYTES == <<0, 255, 255, 255>>

SystemCnf == Txt(<<"S", "Y", "S", "T", "E", "M", ".", "C", "N", "F", ";", "1">>)

BootWord == Txt(<<"b", "o", "o", "t">>)

\* strncasecmp(buf + i, word, Len(word)) == 0, for a word without NUL
strncasecmp_eq(b, i, word) ==
    \A k \in 1..Len(word) : tolower(Peek(b, i + k - 1)) = tolower(word[k])

\* buf[i + 2] | (buf[i + 3] << 8) | (buf[i + 4] << 16)
sector_at(b, i) == Peek(b, i + 2) + Peek(b, i + 3) * 256 + Peek(b, i + 4) * 65536

\* skip + cd_sector * frame_size in int arithmetic: the offsets the seek may get
sector_offset(skip, cd_sector, frame_size) ==
    IF mul_overflows(cd_sector, frame_size)
    THEN {add_wrap(skip, mul_wrap(cd_sector, frame_size)), INT_MIN}
    ELSE {skip + cd_sector * frame_size}

\* lines 158-176: the sector geometry once is_mode1 is known
Ps1Frame(is_mode1) ==
    /\ loc' = [loc EXCEPT !.is_mode1 = is_mode1,
                          !.skip = IF is_mode1 = 1 THEN 0 ELSE 24,
                          !.frame_size = IF loc.sub_channel_mixed = 1 THEN 2448
                                         ELSE IF is_mode1 = 1 THEN 2048 ELSE 2352]
    /\ buffer' = Poke(buffer, 0, NUL)
    /\ pc' = "root"

Ps1Geometry ==
    /\ pc = "geometry"
    /\ \E e \in {intfstream_seek_end(data, io)} :
       IF loc.sub_channel_mixed = 0 /\ intfstream_tell(data, e) % 2048 = 0
       THEN \E r \in {intfstream_read(data, intfstream_seek(data, e, 0), 4)} :
               /\ io' = r.io
               /\ Ps1Frame(IF r.bytes \o Zeros(4 - Len(r.bytes)) # MODETEST_BYTES THEN 1 ELSE 0)
       ELSE /\ io' = e
            /\ Ps1Frame(0)
    /\ UNCHANGED <<data, rv, tmp_token, tokens, track_path, offset, res, ev, input,
                   game_id, system_name, reads>>

\* lines 178-185: the root directory record of the volume descriptor, then the
\* first 4096 bytes of the root directory
Ps1RootDir ==
    /\ pc = "root"
    /\ \E r \in {intfstream_read(data,
                    intfstream_seek(data, io, 156 + loc.skip + 16 * loc.frame_size), 6)} :
       \E b6 \in {PokeSeq(buffer, 0, r.bytes)} :
       \E sec \in {sector_at(b6, 0)} :
       \E off \in sector_offset(loc.skip, sec, loc.frame_size) :
       \E r2 \in {intfstream_read(data, intfstream_seek(data, r.io, off), BUFFER_SIZE)} :
          /\ io' = r2.io
          /\ buffer' = PokeSeq(b6, 0, r2.bytes)
          /\ loc' = [loc EXCEPT !.cd_sector = sec, !.tmp = 0]
    /\ pc' = "scan"
    /\ UNCHANGED <<data, rv, tmp_token, tokens, track_path, offset, res, ev, input,
                   game_id, system_name, reads>>

\* lines 186-195: one iteration of the scan over the directory records
Ps1ScanStep ==
    /\ pc = "scan"
    /\ loc.tmp < BUFFER_SIZE
    /\ IF Peek(buffer, loc.tmp) = 0
       THEN /\ rv' = 0
            /\ pc' = "done"
            /\ UNCHANGED loc
       ELSE IF strncasecmp_eq(buffer, loc.tmp + 33, SystemCnf)
       THEN /\ pc' = "cnf"
            /\ UNCHANGED <<rv, loc>>
       ELSE /\ loc' = [loc EXCEPT !.tmp = @ + Peek(buffer, loc.tmp)]
            /\ UNCHANGED <<rv, pc>>
    /\ UNCHANGED <<data, io, tmp_token, tokens, track_path, offset, res, ev, input,
                   game_id, system_name, reads, buffer>>

\* lines 197-198: the scan ran past the window
Ps1ScanOver ==
    /\ pc = "scan"
    /\ loc.tmp >= BUFFER_SIZE
    /\ rv' = 0
    /\ pc' = "done"
    /\ UNCHANGED <<data, io, tmp_token, tokens, track_path, offset, res, ev, input,
                   game_id, system_name, reads, buffer, loc>>

\* lines 205-207: the first index from 0 at which the buffer holds NUL or "boot"
boot_index(b) ==
    Least({i \in 0..256 : Peek(b, i) = NUL \/ strncasecmp_eq(b, i, BootWord)})

\* lines 200-210: load SYSTEM.CNF and find "boot" in it
Ps1ReadCnf ==
    /\ pc = "cnf"
    /\ \E sec \in {sector_at(buffer, loc.tmp)} :
       \E off \in sector_offset(loc.skip, sec, loc.frame_size) :
       \E r \in {intfstream_read(data, intfstream_seek(data, io, off), 256)} :
       \E b \in {Poke(PokeSeq(buffer, 0, r.bytes), 256, NUL)} :
       \E t \in {boot_index(b)} :
          /\ io' = r.io
          /\ buffer' = b
          /\ loc' = [loc EXCEPT !.cd_sector = sec, !.tmp = t]
          /\ IF Peek(b, t) = NUL
             THEN rv' = 0 /\ pc' = "done"
             ELSE pc' = "id" /\ UNCHANGED rv
    /\ UNCHANGED <<data, tmp_token, tokens, track_path, offset, res, ev, input,
                   game_id, system_name, reads>>

\* only the backslash counts as a separator
IsPathSeparatorBackslashOnly(c) == c = Ord["\\"]

\* line 215
IsPathSeparator(c) == c = Ord["\\"] \/ c = Ord[":"]

\* lines 212-219: the index after the last separator before the end of the line
boot_file_index(b, tmp) ==
    LET stop == Least({i \in tmp..256 : Peek(b, i) = NUL \/ Peek(b, i) = LF})
        seps == {i \in tmp..(stop - 1) : IsPathSeparator(Peek(b, i))}
    IN  IF seps = {} THEN tmp ELSE 1 + CHOOSE i \in seps : \A j \in seps : j <= i

\* lines 231-236: while (isalnum(*tmp)) { *game_id++ = *tmp++; if (*tmp == '.') tmp++; }
RECURSIVE copy_alnum(_, _)
copy_alnum(b, tmp) ==
    IF ~isalnum(Peek(b, tmp)) THEN << >>
    ELSE << Peek(b, tmp) >>
         \o copy_alnum(b, IF Peek(b, tmp + 1) = Ord["."] THEN tmp + 2 ELSE tmp + 1)

\* lines 221-238: the identifier built from the file name at index bf
build_game_id(b, bf) ==
    << toupper(Peek(b, bf)), toupper(Peek(b, bf + 1)), toupper(Peek(b, bf + 2)),
       toupper(Peek(b, bf + 3)), Ord["-"] >>
    \o copy_alnum(b, IF ~isalnum(Peek(b, bf + 4)) THEN bf + 5 ELSE bf + 4)

\* lines 212-240
Ps1BuildId ==
    /\ pc = "id"
    /\ \E bf \in {boot_file_index(buffer, loc.tmp)} :
          /\ loc' = [loc EXCEPT !.boot_file = bf]
          /\ game_id' = PokeSeq(game_id, 0, build_game_id(buffer, bf) \o <<NUL>>)
    /\ rv' = 1
    /\ pc' = "done"
    /\ UNCHANGED <<data, io, tmp_token, tokens, track_path, offset, res, ev, input,
                   system_name, reads, buffer>>

Ps1Next == Ps1Geometry \/ Ps1RootDir \/ Ps1ScanStep \/ Ps1ScanOver \/ Ps1ReadCnf \/ Ps1BuildId

(***************************************************************************)
(* Disc images given to detect_ps1_game_sub                                *)
(***************************************************************************)
\* the three bytes of a little-endian sector number
Lba(n) == << n % 256, (n \div 256) % 256, (n \div 65536) % 256 >>

\* an ISO 9660 directory record: its length, the sector of its extent at
\* bytes 2..4, the name length at byte 32, the name from byte 33
DirRecord(lba, name) ==
    [k \in 1..(34 + Len(name)) |->
        IF k = 1 THEN 34 + Len(name)
        ELSE IF k \in 3..5 THEN Lba(lba)[k - 2]
        ELSE IF k = 33 THEN Len(name)
        ELSE IF k > 33 /\ k <= 33 + Len(name) THEN name[k - 33]
        ELSE 0]

RootLba == 22

CnfLba == 24

BootLba == 25

\* sector layouts: the size of a sector, the header before its data, whether
\* the image carries the sync pattern, and the sub_channel_mixed argument
Geometries ==
    { [frame |-> 2048, skip |-> 0,  sync |-> FALSE, scm |-> 0, sectors |-> CnfLba + 2, fill |-> NUL],
      [frame |-> 2352, skip |-> 24, sync |-> TRUE,  scm |-> 0, sectors |-> CnfLba + 2, fill |-> 255],
      [frame |-> 2352, skip |-> 24, sync |-> TRUE,  scm |-> 0, sectors |-> 2048, fill |-> NUL],
      [frame |-> 2448, skip |-> 24, sync |-> TRUE,  scm |-> 1, sectors |-> CnfLba + 2, fill |-> 255] }

\* an image: the root directory record of the volume descriptor, the root
\* directory, and the contents of SYSTEM.CNF
Image(g, dir, cnf) ==
    Stream(g.sectors * g.frame,
           << [at |-> 0, bytes |-> IF g.sync THEN MODETEST_BYTES ELSE <<0, 0, 0, 0>>],
              [at |-> 156 + g.skip + 16 * g.frame, bytes |-> <<34, 0>> \o Lba(RootLba) \o <<0>>],
              [at |-> g.skip + RootLba * g.frame, bytes |-> dir],
              [at |-> g.skip + CnfLba * g.frame, bytes |-> cnf] >>,
           NoFault)

BootName(i) == i.letters \o i.sep \o i.digits

BootLine(i) == i.key \o i.prefix \o BootName(i) \o i.term

RootDir(names) ==
    DirRecord(RootLba, <<0>>) \o DirRecord(RootLba, <<1>>)
    \o (IF names.boot THEN DirRecord(BootLba, Txt(<<"S", "L", "E", "S", "_", "1", "2", "3", ".", "4", "5", ";", "1">>))
        ELSE << >>)
    \o (IF names.cnf THEN DirRecord(CnfLba, names.cnf_name) ELSE << >>)

SystemCnfLower == Txt(<<"s", "y", "s", "t", "e", "m", ".", "c", "n", "f", ";", "1">>)

CRLF == <<CR, LF>>

BootKeys ==
    { Txt(<<"B", "O", "O", "T", " ", "=", " ">>),
      Txt(<<"B", "O", "O", "T", "2", "=">>),
      Txt(<<"V", "M", "O", "D", "E", "=", "P", "A", "L">>) \o CRLF \o Txt(<<"b", "o", "o", "t", " ", "=">>) }

BootPrefixes ==
    { Txt(<<"c", "d", "r", "o", "m", ":", "\\">>),
      Txt(<<"c", "d", "r", "o", "m", "0", ":">>),
      Txt(<<"c", "d", "r", "o", "m", ":", "\\", "D", "I", "R", "1", "\\">>) }

BootLetters == { Txt(<<"S", "L", "E", "S">>), Txt(<<"s", "c", "U", "s">>) }

BootSeps == { Txt(<<"_">>), Txt(<<"-">>), Txt(<<".">>) }

BootDigits ==
    { Txt(<<"1", "2", "3", ".", "4", "5">>), Txt(<<"1", "2", "3", "4", "5">>),
      Txt(<<"9", ".", "4", ".", "2", ".", "0", ".", "1">>), Txt(<<"0", "0", "0", ".", "0", "1">>) }

BootTerms ==
    { Txt(<<";", "1">>) \o CRLF \o Txt(<<"T", "C", "B", "=", "4">>) \o CRLF,
      CRLF, << >>, Txt(<<".", ";", "1">>) }

\* images with a well-formed SYSTEM.CNF
BootInputs ==
    { [kind |-> "boot", geom |-> g, key |-> k, prefix |-> p, letters |-> l, sep |-> s,
       digits |-> d, term |-> t, names |-> [boot |-> TRUE, cnf |-> TRUE, cnf_name |-> SystemCnfLower]] :
      g \in Geometries, k \in BootKeys, p \in BootPrefixes, l \in BootLetters, s \in BootSeps,
      d \in BootDigits, t \in BootTerms }

Ps1Data(i) ==
    IF i.kind = "full_dir"
    THEN Image(i.geom, [k \in 1..BUFFER_SIZE |-> IF k % 128 = 1 THEN 128 ELSE Ord["A"]], << >>)
    ELSE IF i.kind = "no_boot"
    THEN Image(i.geom, RootDir(i.names), Txt(<<"T", "C", "B", "=", "4">>) \o CRLF)
    ELSE Image(i.geom, RootDir(i.names), BootLine(i))

\* images without a usable SYSTEM.CNF, and calls with the wrong sub_channel_mixed
OddInputs ==
    { [kind |-> kd, geom |-> g, key |-> Txt(<<"B", "O", "O", "T", "=">>), prefix |-> << >>,
       letters |-> Txt(<<"S", "L", "U", "S">>), sep |-> Txt(<<"_">>),
       digits |-> Txt(<<"0", "0", "0", ".", "0", "7">>), term |-> CRLF,
       names |-> [boot |-> b, cnf |-> kd # "no_cnf", cnf_name |-> SystemCnf]] :
      kd \in {"full_dir", "no_boot", "no_cnf", "wrong_scm"}, g \in Geometries, b \in BOOLEAN }

Ps1Inputs == BootInputs \cup OddInputs

Ps1Init ==
    /\ input \in Ps1Inputs
    /\ data = Ps1Data(input)
    /\ io = OpenIo(data, 0)
    /\ pc = "geometry"
    /\ rv = -1
    /\ loc = [sub_channel_mixed |-> IF input.kind = "wrong_scm" THEN 1 - input.geom.scm
                                    ELSE input.geom.scm,
              is_mode1 |-> 0, skip |-> 0, frame_size |-> 0, cd_sector |-> 0, tmp |-> 0,
              boot_file |-> 0]
    /\ buffer = Buffer(BUFFER_SIZE, input.geom.fill)
    /\ game_id = Buffer(GameIdCap, input.geom.fill)
    /\ system_name = Unused /\ reads = Unused
    /\ tmp_token = Unused /\ tokens = Unused /\ track_path = Unused /\ offset = Unused
    /\ res = Unused /\ ev = Unused

SpecPs1 == Ps1Init /\ [][Ps1Next]_vars

NoDots(s) == SelectSeq(s, LAMBDA c : c # Ord["."])

Upper(s) == [k \in 1..Len(s) |-> toupper(s[k])]

\* C2: for a boot file name of 4 letters, one non-alphanumeric separator and
\* digits with single dots, ended by a non-alphanumeric character,
\* detect_ps1_game_sub returns 1 and game_id holds the 4 letters in upper case,
\* a dash, and the digits without the dots; anything up to the last backslash
\* or colon of the line is dropped.
C2_Ps1Serial ==
    (Done /\ input.kind = "boot") =>
        /\ rv = 1
        /\ CStr(game_id) = Upper(input.letters) \o <<Ord["-"]>> \o NoDots(input.digits)
        /\ ~game_id.oob

\* cdrom:\SLES_123.45;1 gives SLES-12345
C2_Witness ==
    /\ Done
    /\ input.kind = "boot"
    /\ BootName(input) = Txt(<<"S", "L", "E", "S", "_", "1", "2", "3", ".", "4", "5">>)
    /\ input.prefix = Txt(<<"c", "d", "r", "o", "m", ":", "\\">>)
    /\ Len(input.term) > 0 /\ input.term[1] = Ord[";"]
    /\ rv = 1
    /\ CStr(game_id) = Txt(<<"S", "L", "E", "S", "-", "1", "2", "3", "4", "5">>)

====
